---- MODULE Spec2Model ----
(***************************************************************************)
(* Model of tasks/build.py: the `all` build task, i.e. the `bin` task      *)
(* (compile, run the binary, beautify its help text, paste it into the     *)
(* README) followed by the `docs` task (API docs, mkdocs build, HTML       *)
(* scrub, release-mode purge of the paths listed in .docsignore).          *)
(*                                                                         *)
(* Text is modelled character by character: a string is a sequence of      *)
(* one-character strings, so that strip/split/join/replace are computed    *)
(* the way Python computes them.  The platform is POSIX: os.linesep is a   *)
(* single newline and text-mode I/O does not translate it.                 *)
(***************************************************************************)
EXTENDS Integers, Sequences, FiniteSets, TLC

(***************************************************************************)
(* Bounds of the model.                                                    *)
(***************************************************************************)
MaxPreamble == 1
MaxRest == 2
MaxDocLines == 4
MaxPatterns == 2
MaxRuns == 2

(***************************************************************************)
(* Python string primitives.                                               *)
(***************************************************************************)
NL == "\n"

\* None, as the value of begin_idx / end_idx and of a task that falls off its end
None == -1

IsSpace(c) == c \in {" ", "\t", "\n"}

WordChars ==
    {"a","b","c","d","e","f","g","h","i","j","k","l","m","n","o","p","q","r",
     "s","t","u","v","w","x","y","z","A","B","C","D","E","F","G","H","I","J",
     "K","L","M","N","O","P","Q","R","S","T","U","V","W","X","Y","Z",
     "0","1","2","3","4","5","6","7","8","9","_"}

\* one character of the class (?:\w|[-_])
IsFlagChar(c) == c \in WordChars \/ c = "-"

RECURSIVE RStrip(_)
RStrip(s) ==
    IF s = <<>> THEN s
    ELSE IF IsSpace(s[Len(s)]) THEN RStrip(SubSeq(s, 1, Len(s) - 1))
    ELSE s

RECURSIVE LStrip(_)
LStrip(s) ==
    IF s = <<>> THEN s
    ELSE IF IsSpace(s[1]) THEN LStrip(Tail(s))
    ELSE s

Strip(s) == LStrip(RStrip(s))

\* s[i:].startswith(p), 1-based
HasAt(s, p, i) ==
    /\ i + Len(p) - 1 <= Len(s)
    /\ SubSeq(s, i, i + Len(p) - 1) = p

StartsWith(s, p) == HasAt(s, p, 1)

\* p in s
Contains(s, p) == \E i \in 1..(Len(s) - Len(p) + 1) : HasAt(s, p, i)

RECURSIVE SplitFrom(_, _, _, _)
SplitFrom(s, sep, i, start) ==
    IF i + Len(sep) - 1 > Len(s) THEN << SubSeq(s, start, Len(s)) >>
    ELSE IF HasAt(s, sep, i)
         THEN << SubSeq(s, start, i - 1) >>
                  \o SplitFrom(s, sep, i + Len(sep), i + Len(sep))
         ELSE SplitFrom(s, sep, i + 1, start)

\* s.split(sep)
Split(s, sep) == SplitFrom(s, sep, 1, 1)

RECURSIVE Join(_, _)
\* sep.join(parts)
Join(sep, parts) ==
    IF parts = <<>> THEN <<>>
    ELSE IF Len(parts) = 1 THEN parts[1]
    ELSE parts[1] \o sep \o Join(sep, Tail(parts))

\* s.replace(old, new)
Replace(s, old, new) == Join(new, Split(s, old))

\* s.splitlines(): the pieces between newlines, without a last empty piece
SplitLines(s) ==
    LET pieces == Split(s, <<NL>>)
    IN  IF pieces[Len(pieces)] = <<>>
        THEN SubSeq(pieces, 1, Len(pieces) - 1)
        ELSE pieces

(***************************************************************************)
(* bin: beautifying the help text (lines 61-80).                           *)
(***************************************************************************)
USAGE == <<"U","S","A","G","E">>
DASHDASH == <<"-","-">>
BRACKET_SPACE == <<"]"," ">>
BRACKET_BREAK == <<"]",NL," "," "," "," ">>
RUSH == <<"r","u","s","h">>
RH == <<"r","h">>
INDENT == <<" "," "," "," ">>

RECURSIVE FlagEnd(_, _)
\* the last index of the longest run of flag characters that starts at j
FlagEnd(s, j) ==
    IF j + 1 <= Len(s) /\ IsFlagChar(s[j + 1]) THEN FlagEnd(s, j + 1) ELSE j

RECURSIVE FindFlagsFrom(_, _)
FindFlagsFrom(s, i) ==
    IF i + 2 > Len(s) THEN <<>>
    ELSE IF HasAt(s, DASHDASH, i) /\ IsFlagChar(s[i + 2])
         THEN LET j == FlagEnd(s, i + 2)
              IN  << SubSeq(s, i, j) >> \o FindFlagsFrom(s, j + 1)
         ELSE FindFlagsFrom(s, i + 1)

\* re.findall(r'--(?:\w|[-_])+', s)
FindFlags(s) == FindFlagsFrom(s, 1)

\* a faulty variant of SkipFluff: the loop that removes the preamble is missing
SkipFluffNone(lines) == lines

RECURSIVE SkipFluff(_)
\* while not help_lines[0].startswith("USAGE"): del help_lines[0]
\* (the empty list stands for the IndexError of help_lines[0])
SkipFluff(lines) ==
    IF lines = <<>> THEN <<>>
    ELSE IF StartsWith(lines[1], USAGE) THEN lines
    ELSE SkipFluff(Tail(lines))

\* faulty variants of KeepLine: every line that mentions a flag is removed; no
\* line is removed
KeepLineNoFlag(line, flags) == ~ Contains(line, DASHDASH)

KeepLineAll(line, flags) == TRUE

\* the condition of the list comprehension that filters help_lines[1:]
KeepLine(line, flags) ==
    \/ ~ Contains(line, DASHDASH)
    \/ \E k \in 1..Len(flags) : Contains(line, flags[k])

FilterHelp(lines, flags) ==
    LET Keep(line) == KeepLine(line, flags)
    IN  SelectSeq(lines, Keep)

\* ']\n    '.join(line.strip().split('] ')).replace("rush", "rh").splitlines()
UsageLines(line) ==
    SplitLines(Replace(Join(BRACKET_BREAK, Split(Strip(line), BRACKET_SPACE)),
                       RUSH, RH))

IndentLine(line) == INDENT \o line

\* lines 61-80: the help text pasted into the README, or the IndexError
Beautify(out) ==
    LET help_lines == SplitLines(Strip(out))
        usage == SkipFluff(help_lines)
    IN  IF usage = <<>> \/ Len(usage) < 2
        THEN [raised |-> TRUE, flags |-> <<>>, lines |-> <<>>, help |-> <<>>]
        ELSE LET rest == Tail(usage)
                 flags == FindFlags(rest[1])
                 kept == FilterHelp(Tail(rest), flags)
                 final == UsageLines(rest[1]) \o kept
             IN  [raised |-> FALSE,
                  flags |-> flags,
                  lines |-> final,
                  help |-> Join(<<NL>>, [i \in 1..Len(final) |-> IndentLine(final[i])])]

(***************************************************************************)
(* bin: pasting the help into the README (lines 84-114).                   *)
(***************************************************************************)
HASH == <<"#">>
USAGE_TITLE == <<"#"," ","U","s","a","g","e">>

\* f.readlines(): every line with its newline, the last one as it is
Readlines(text) ==
    LET pieces == Split(text, <<NL>>)
        n == Len(pieces)
    IN  [i \in 1..(n - 1) |-> pieces[i] \o <<NL>>]
            \o (IF pieces[n] = <<>> THEN <<>> ELSE << pieces[n] >>)

\* a faulty variant of ReadmeLines: the lines are not stripped
ReadmeLinesUnstripped(text) == Readlines(text)

\* readme_lines = [line.rstrip() for line in f.readlines()]
ReadmeLines(text) ==
    LET lines == Readlines(text)
    IN  [i \in 1..Len(lines) |-> RStrip(lines[i])]

RECURSIVE ScanNoBreak(_, _, _, _)
\* a faulty variant of ScanMarkers: the loop does not break at the first end marker
ScanNoBreak(lines, i, begin, end) ==
    IF i >= Len(lines) THEN [begin_idx |-> begin, end_idx |-> end]
    ELSE IF ~ StartsWith(lines[i + 1], HASH)
         THEN ScanNoBreak(lines, i + 1, begin, end)
    ELSE IF begin = None
         THEN ScanNoBreak(lines, i + 1,
                  IF Contains(lines[i + 1], USAGE_TITLE) THEN i ELSE begin, end)
    ELSE ScanNoBreak(lines, i + 1, begin, i)

ScanMarkersNoBreak(lines, i, begin) == ScanNoBreak(lines, i, begin, None)

RECURSIVE ScanMarkers(_, _, _)
\* the for loop over enumerate(readme_lines), from index i (0-based) on,
\* with begin_idx as found so far
ScanMarkers(lines, i, begin) ==
    IF i >= Len(lines) THEN [begin_idx |-> begin, end_idx |-> None]
    ELSE IF ~ StartsWith(lines[i + 1], HASH)
         THEN ScanMarkers(lines, i + 1, begin)
    ELSE IF begin = None
         THEN ScanMarkers(lines, i + 1,
                  IF Contains(lines[i + 1], USAGE_TITLE) THEN i ELSE begin)
    ELSE [begin_idx |-> begin, end_idx |-> i]

\* a faulty variant of ReadmeContent: the suffix starts after the end marker
ReadmeContentOffByOne(lines, b, e, help_text) ==
    Join(<<NL>>, << Join(<<NL>>, SubSeq(lines, 1, b + 1)),
                    <<>>, help_text, <<>>,
                    Join(<<NL>>, SubSeq(lines, e + 2, Len(lines))),
                    <<>> >>)

\* readme_content: lines [:begin_idx + 1], '', help, '', lines [end_idx:], ''
ReadmeContent(lines, b, e, help_text) ==
    Join(<<NL>>, << Join(<<NL>>, SubSeq(lines, 1, b + 1)),
                    <<>>, help_text, <<>>,
                    Join(<<NL>>, SubSeq(lines, e + 1, Len(lines))),
                    <<>> >>)

\* a faulty variant of PasteHelp: the file is truncated before the markers are checked
PasteHelpTruncating(text, help_text) ==
    LET readme_lines == ReadmeLines(text)
        m == ScanMarkers(readme_lines, 0, None)
    IN  IF m.begin_idx = None \/ m.end_idx = None
        THEN [begin_idx |-> m.begin_idx, end_idx |-> m.end_idx,
              code |-> 2, content |-> <<>>]
        ELSE [begin_idx |-> m.begin_idx, end_idx |-> m.end_idx,
              code |-> None,
              content |-> ReadmeContent(readme_lines, m.begin_idx,
                                        m.end_idx, help_text)]

\* the with block: what bin returns and what README.md holds afterwards
PasteHelp(text, help_text) ==
    LET readme_lines == ReadmeLines(text)
        m == ScanMarkers(readme_lines, 0, None)
    IN  IF m.begin_idx = None \/ m.end_idx = None
        THEN [begin_idx |-> m.begin_idx, end_idx |-> m.end_idx,
              code |-> 2, content |-> text]
        ELSE [begin_idx |-> m.begin_idx, end_idx |-> m.end_idx,
              code |-> None,
              content |-> ReadmeContent(readme_lines, m.begin_idx,
                                        m.end_idx, help_text)]

(***************************************************************************)
(* docs: purging the ignored paths (lines 165-194).  The output directory  *)
(* is a set of files and a set of directories, each path a sequence of     *)
(* names; the output directory itself is the empty path.                   *)
(***************************************************************************)
SLASH == <<"/">>
STAR == <<"*">>
STARSTAR == <<"*","*">>

\* the condition of the list comprehension that reads .docsignore
IsPatternLine(line) ==
    /\ Strip(line) # <<>>
    /\ ~ StartsWith(LStrip(line), HASH)

\* ignored = [line.rstrip() for line in f.readlines() if ...]
IgnoredPatterns(text) ==
    LET lines == SelectSeq(Readlines(text), IsPatternLine)
    IN  [i \in 1..Len(lines) |-> RStrip(lines[i])]

IsPathPrefix(p, q) == Len(p) <= Len(q) /\ SubSeq(q, 1, Len(p)) = p

\* a faulty variant of Rmtree: only the directory entry goes, not what is in it
RmtreeShallow(st, path) == [st EXCEPT !.dirs = @ \ {path}]

\* shutil.rmtree(str(path))
Rmtree(st, path) ==
    [st EXCEPT !.files = {q \in @ : ~ IsPathPrefix(path, q)},
               !.dirs = {q \in @ : ~ IsPathPrefix(path, q)}]

\* the body of the for loop: rmtree a directory, unlink anything else
\* (unlink raises OSError when the path does not exist)
Remove(st, path) ==
    IF path \in st.dirs THEN Rmtree(st, path)
    ELSE IF path \in st.files THEN [st EXCEPT !.files = @ \ {path}]
    ELSE [st EXCEPT !.raised = TRUE]

\* os.listdir(path), in the order the file system lists the names
Listdir(st, path, order) ==
    LET Here(name) == Append(path, name) \in st.files \cup st.dirs
    IN  SelectSeq(order, Here)

RECURSIVE Fnmatch(_, _)
\* fnmatch of one path component; `*` is the only wildcard of the model
Fnmatch(pat, name) ==
    IF pat = <<>> THEN name = <<>>
    ELSE IF pat[1] = "*"
         THEN \/ Fnmatch(Tail(pat), name)
              \/ name # <<>> /\ Fnmatch(pat, Tail(name))
    ELSE name # <<>> /\ name[1] = pat[1] /\ Fnmatch(Tail(pat), Tail(name))

\* the components of a glob pattern (a trailing slash adds none)
PatternParts(pattern) ==
    LET NonEmpty(part) == part # <<>>
    IN  SelectSeq(Split(pattern, SLASH), NonEmpty)

RECURSIVE SelectRemove(_, _, _, _)
RECURSIVE EachChild(_, _, _, _, _, _)
RECURSIVE EachStart(_, _, _, _)
RECURSIVE EachSubdir(_, _, _, _, _)

\* output_dir.glob(pattern) consumed by the for loop: the generator is lazy,
\* so every path is removed when it is yielded, before the glob goes on
SelectRemove(parts, parent, st, order) ==
    IF st.raised THEN st
    ELSE IF parts = <<>> THEN Remove(st, parent)
    ELSE IF parent \notin st.dirs THEN st
    ELSE IF parts[1] = STARSTAR THEN EachStart(Tail(parts), parent, st, order)
    ELSE IF Contains(parts[1], STAR)
         THEN EachChild(Listdir(st, parent, order), parts[1], Tail(parts),
                        parent, st, order)
    ELSE IF Append(parent, parts[1]) \in st.files \cup st.dirs
         THEN SelectRemove(Tail(parts), Append(parent, parts[1]), st, order)
    ELSE st

\* a wildcard component: the names listed in the parent that match it
EachChild(names, pat, rest, parent, st, order) ==
    IF names = <<>> \/ st.raised THEN st
    ELSE EachChild(Tail(names), pat, rest, parent,
                   IF Fnmatch(pat, names[1])
                   THEN SelectRemove(rest, Append(parent, names[1]), st, order)
                   ELSE st,
                   order)

\* a `**` component: the directory itself, then each directory below it,
\* listed after the matches in the directory itself have been removed
\* (listing a directory that is gone raises OSError)
EachStart(rest, dir, st, order) ==
    LET st1 == SelectRemove(rest, dir, st, order)
    IN  IF st1.raised THEN st1
        ELSE IF dir \notin st1.dirs THEN [st1 EXCEPT !.raised = TRUE]
        ELSE EachSubdir(Listdir(st1, dir, order), rest, dir, st1, order)

EachSubdir(names, rest, dir, st, order) ==
    IF names = <<>> \/ st.raised THEN st
    ELSE EachSubdir(Tail(names), rest, dir,
                    IF Append(dir, names[1]) \in st.dirs
                    THEN EachStart(rest, Append(dir, names[1]), st, order)
                    ELSE st,
                    order)

\* one pattern of `ignored`: glob it and remove what it yields
PurgePattern(pattern, st, order) ==
    SelectRemove(PatternParts(pattern), <<>>, st, order)

(***************************************************************************)
(* The inputs: what the compiled binary prints, README.md, docs/.docsignore *)
(* and the mkdocs output directory.                                        *)
(***************************************************************************)
SeqsUpTo(S, n) == UNION {[1..k -> S] : k \in 0..n}

\* lines a help text is made of
BannerLine == <<"r","u","s","h"," ","0">>
LooseUsageLine == <<" ","U","S","A","G","E"," ","x">>
UsageHeader == <<"U","S","A","G","E",":">>
SynopsisAB == <<" "," "," "," ","r","u","s","h"," ","[","-","-","a","]"," ","[","-","-","b","]"," ","f">>
SynopsisPlain == <<" "," ","r","u","s","h"," ","f">>
SynopsisBlank == <<" "," ">>
FlagsHeader == <<"F","L","A","G","S",":">>
LineA == <<" "," ","-","-","a"," ","x">>
LineC == <<" "," ","-","-","c"," ","y">>
LineAC == <<" ","-","-","a"," ","-","-","c">>
LineAB == <<"-","-","a","b"," ","z">>
LineShort == <<" ","-","b"," ">>

PreambleLines == {BannerLine, <<>>, LooseUsageLine}
SynopsisLines == {SynopsisAB, SynopsisPlain, SynopsisBlank}
RestLines == {<<>>, FlagsHeader, LineA, LineC, LineAC, LineAB, LineShort}

\* binary.stdout: a preamble, the USAGE: header, the synopsis, further lines
HelpTexts ==
    {Join(<<NL>>, pre \o <<UsageHeader, syn>> \o rest) \o <<NL>> :
        pre \in SeqsUpTo(PreambleLines, MaxPreamble),
        syn \in SynopsisLines,
        rest \in SeqsUpTo(RestLines, MaxRest)}

UsualHelp ==
    Join(<<NL>>, <<BannerLine, <<>>, UsageHeader, SynopsisAB, <<>>,
                   FlagsHeader, LineA, LineC>>) \o <<NL>>

\* a help text without a synopsis: help_lines[0] raises IndexError
BareHelp == UsageHeader \o <<NL>>

\* a help text of which nothing is left: the pasted help is the empty string
EmptyHelp == Join(<<NL>>, <<UsageHeader, SynopsisBlank, LineC>>) \o <<NL>>

\* lines a README is made of
IntroHeader == <<"#"," ","I">>
UsageHeading == <<"#"," ","U","s","a","g","e">>
IndentedHeading == <<" ","#"," ","U","s","a","g","e">>
TextLine == <<"t"," ">>

ReadmeLineSet == {IntroHeader, UsageHeading, IndentedHeading, TextLine}

\* README.md, with or without a newline at its end
ReadmeTexts ==
    {Join(<<NL>>, lines) \o tail :
        lines \in SeqsUpTo(ReadmeLineSet, MaxDocLines),
        tail \in {<<>>, <<NL>>}}

UsualReadme ==
    Join(<<NL>>, <<IntroHeader, UsageHeading, TextLine, IntroHeader>>) \o <<NL>>

OpenReadme == Join(<<NL>>, <<IntroHeader, UsageHeading, TextLine>>) \o <<NL>>

\* lines of .docsignore
PatTmp == <<"*",".","t","m","p"," ">>
PatBuild == <<"b","u","i","l","d","/">>
PatComment == <<" ","#"," ","x">>
PatAnyTmp == <<"*","*","/","*",".","t","m","p">>
PatBelowBuild == <<"b","u","i","l","d","/","*","*">>

IgnoreLineSet == {PatTmp, PatBuild, PatComment, <<>>, PatAnyTmp, PatBelowBuild}

NoIgnoreFile == [exists |-> FALSE, text |-> <<>>]

\* docs/.docsignore: missing, or some lines
IgnoreFiles ==
    {NoIgnoreFile} \cup
    {[exists |-> TRUE, text |-> Join(<<NL>>, lines) \o <<NL>>] :
        lines \in SeqsUpTo(IgnoreLineSet, MaxPatterns)}

UsualIgnoreFile ==
    [exists |-> TRUE,
     text |-> Join(<<NL>>, <<PatComment, PatTmp, PatBuild>>) \o <<NL>>]

\* names in the output directory
A_TMP == <<"a",".","t","m","p">>
KEEP_TXT == <<"k","e","e","p",".","t","x","t">>
BUILD == <<"b","u","i","l","d">>
X_HTML == <<"x",".","h","t","m","l">>
SUB_TMP == <<"s","u","b",".","t","m","p">>
C_TMP == <<"c",".","t","m","p">>

SiteFiles == {<<A_TMP>>, <<KEEP_TXT>>, <<BUILD, X_HTML>>, <<BUILD, SUB_TMP, C_TMP>>}
SiteDirs == {<<BUILD>>, <<BUILD, SUB_TMP>>}

Parent(path) == SubSeq(path, 1, Len(path) - 1)

\* the trees mkdocs may leave in the output directory
SiteTrees ==
    {t \in [files : SUBSET SiteFiles, dirs : SUBSET (SiteDirs \cup {<<>>})] :
        /\ <<>> \in t.dirs
        /\ \A q \in (t.files \cup t.dirs) \ {<<>>} : Parent(q) \in t.dirs}

UsualSite ==
    [files |-> {<<A_TMP>>, <<KEEP_TXT>>, <<BUILD, X_HTML>>},
     dirs |-> {<<>>, <<BUILD>>}]

\* the orders in which the file system may list names
ListingOrders ==
    {<<A_TMP, BUILD, C_TMP, KEEP_TXT, SUB_TMP, X_HTML>>,
     <<X_HTML, SUB_TMP, KEEP_TXT, C_TMP, BUILD, A_TMP>>}

(***************************************************************************)
(* The state.                                                              *)
(***************************************************************************)
VARIABLES
    pc,             \* where the invoked task stands
    task,           \* the task invoked: "all", "bin" or "docs"
    release,        \* the --release flag
    run,            \* how many times the task has been invoked
    stages,         \* the steps this invocation has executed, each with its outcome
    program_help,   \* what the compiled binary prints
    help_lines,     \* bin's help_lines, beautified
    help,           \* bin's help
    readme,         \* the content of README.md
    readme_before,  \* the content of README.md when bin last opened it
    begin_idx,      \* bin's begin_idx
    end_idx,        \* bin's end_idx
    bin_result,     \* what bin returned
    docs_result,    \* what docs_ returned
    pastes,         \* how many times the help has been written into README.md
    docsignore,     \* docs/.docsignore
    ignored,        \* docs_'s ignored: the patterns still to resolve
    site,           \* the output directory
    site_before,    \* the output directory when the purge began
    listing         \* the order in which directories list their entries

vars ==
    <<pc, task, release, run, stages, program_help, help_lines, help, readme,
      readme_before,
      begin_idx, end_idx, bin_result, docs_result, pastes, docsignore, ignored,
      site, site_before, listing>>

inputs == <<task, release, program_help, docsignore, listing>>

(***************************************************************************)
(* The tasks, step by step.                                                *)
(***************************************************************************)
\* where all goes on when bin has returned, and where a task ends
AfterBin == IF task = "all" THEN "docs_api" ELSE "done"
AfterDocs == IF task = "all" THEN "finish" ELSE "done"
StartOf(t) == IF t = "docs" THEN "docs_api" ELSE "bin_rustc"

Ran(name, ok) == stages' = Append(stages, [name |-> name, ok |-> ok])

\* ensure_rustc_version: sys.exit unless rustc is there and recent enough
EnsureRustc ==
    /\ pc = "bin_rustc"
    /\ \E ok \in BOOLEAN :
        /\ Ran("rustc", ok)
        /\ pc' = IF ok THEN "bin_build" ELSE "exit"
    /\ UNCHANGED <<inputs, run, help_lines, help, readme, readme_before, begin_idx, end_idx,
                   bin_result, docs_result, pastes, ignored, site, site_before>>

\* cargo build of the binary crate
CargoBuild ==
    /\ pc = "bin_build"
    /\ \E return_code \in {0, 101} :
        /\ Ran("compile", return_code = 0)
        /\ IF return_code = 0
           THEN pc' = "bin_run" /\ UNCHANGED bin_result
           ELSE pc' = AfterBin /\ bin_result' = return_code
    /\ UNCHANGED <<inputs, run, help_lines, help, readme, readme_before, begin_idx, end_idx,
                   docs_result, pastes, ignored, site, site_before>>

\* cargo run: the binary prints its help
RunBinary ==
    /\ pc = "bin_run"
    /\ \E return_code \in {0, 1} :
        /\ Ran("run", return_code = 0)
        /\ IF return_code = 0
           THEN pc' = "bin_beautify" /\ UNCHANGED bin_result
           ELSE pc' = AfterBin /\ bin_result' = return_code
    /\ UNCHANGED <<inputs, run, help_lines, help, readme, readme_before, begin_idx, end_idx,
                   docs_result, pastes, ignored, site, site_before>>

\* lines 61-80
BeautifyHelp ==
    /\ pc = "bin_beautify"
    /\ LET b == Beautify(program_help)
       IN  /\ Ran("beautify", ~ b.raised)
           /\ help_lines' = b.lines
           /\ help' = b.help
           /\ pc' = IF b.raised THEN "raised" ELSE "bin_splice"
    /\ UNCHANGED <<inputs, run, readme, readme_before, begin_idx, end_idx,
                   bin_result, docs_result, pastes, ignored, site, site_before>>

\* lines 84-114
Splice ==
    /\ pc = "bin_splice"
    /\ LET p == PasteHelp(readme, help)
       IN  /\ Ran("splice", p.code = None)
           /\ readme_before' = readme
           /\ readme' = p.content
           /\ begin_idx' = p.begin_idx
           /\ end_idx' = p.end_idx
           /\ bin_result' = p.code
           /\ pastes' = IF p.code = None THEN pastes + 1 ELSE pastes
    /\ pc' = AfterBin
    /\ UNCHANGED <<inputs, run, help_lines, help, docs_result, ignored, site, site_before>>

\* describe_rust_api and insert_api_docs
DocsApi ==
    /\ pc = "docs_api"
    /\ Ran("api", TRUE)
    /\ pc' = "docs_mkdocs"
    /\ UNCHANGED <<inputs, run, help_lines, help, readme, readme_before, begin_idx, end_idx,
                   bin_result, docs_result, pastes, ignored, site, site_before>>

\* mkdocs build
MkdocsBuild ==
    /\ pc = "docs_mkdocs"
    /\ \E return_code \in {0, 1} :
        /\ Ran("mkdocs", return_code = 0)
        /\ IF return_code = 0
           THEN pc' = "docs_scrub" /\ UNCHANGED docs_result
           ELSE pc' = AfterDocs /\ docs_result' = return_code
    /\ UNCHANGED <<inputs, run, help_lines, help, readme, readme_before, begin_idx, end_idx,
                   bin_result, pastes, ignored, site, site_before>>

\* scrub_html_comment_markers over the output, then `if release:`
ScrubHtml ==
    /\ pc = "docs_scrub"
    /\ Ran("scrub", TRUE)
    /\ pc' = IF release THEN "docs_ignore" ELSE AfterDocs
    /\ UNCHANGED <<inputs, run, help_lines, help, readme, readme_before, begin_idx, end_idx,
                   bin_result, docs_result, pastes, ignored, site, site_before>>

\* lines 169-180: read the patterns, if the file is there
ReadIgnore ==
    /\ pc = "docs_ignore"
    /\ Ran("ignore", TRUE)
    /\ ignored' = IF docsignore.exists THEN IgnoredPatterns(docsignore.text)
                  ELSE <<>>
    /\ site_before' = site
    /\ pc' = "docs_purge"
    /\ UNCHANGED <<inputs, run, help_lines, help, readme, readme_before, begin_idx, end_idx,
                   bin_result, docs_result, pastes, site>>

\* lines 184-194, one pattern of the chain
PurgeNext ==
    /\ pc = "docs_purge"
    /\ ignored # <<>>
    /\ LET st == PurgePattern(Head(ignored),
                              [files |-> site.files, dirs |-> site.dirs,
                               raised |-> FALSE],
                              listing)
       IN  /\ Ran("purge", ~ st.raised)
           /\ site' = [files |-> st.files, dirs |-> st.dirs]
           /\ pc' = IF st.raised THEN "raised" ELSE "docs_purge"
    /\ ignored' = Tail(ignored)
    /\ UNCHANGED <<inputs, run, help_lines, help, readme, readme_before, begin_idx, end_idx,
                   bin_result, docs_result, pastes, site_before>>

\* the for loop is over: docs_ returns
PurgeDone ==
    /\ pc = "docs_purge"
    /\ ignored = <<>>
    /\ pc' = AfterDocs
    /\ UNCHANGED <<inputs, run, stages, help_lines, help, readme, readme_before, begin_idx,
                   end_idx, bin_result, docs_result, pastes, ignored, site,
                   site_before>>

\* print("Build finished.")
AllFinish ==
    /\ pc = "finish"
    /\ pc' = "done"
    /\ UNCHANGED <<inputs, run, stages, help_lines, help, readme, readme_before, begin_idx,
                   end_idx, bin_result, docs_result, pastes, ignored, site,
                   site_before>>

\* the task is invoked once more, on the files the last invocation left
InvokeAgain ==
    /\ pc \in {"done", "exit", "raised"}
    /\ run < MaxRuns
    /\ run' = run + 1
    /\ pc' = StartOf(task)
    /\ stages' = <<>>
    /\ help_lines' = <<>>
    /\ help' = <<>>
    /\ begin_idx' = None
    /\ end_idx' = None
    /\ bin_result' = None
    /\ docs_result' = None
    /\ ignored' = <<>>
    /\ readme_before' = readme
    /\ site_before' = site
    /\ UNCHANGED <<inputs, readme, pastes, site>>

\* the locals of a task that has just been invoked
Fresh ==
    /\ run = 1
    /\ stages = <<>>
    /\ help_lines = <<>>
    /\ help = <<>>
    /\ begin_idx = None
    /\ end_idx = None
    /\ bin_result = None
    /\ docs_result = None
    /\ pastes = 0
    /\ ignored = <<>>
    /\ readme_before = readme
    /\ site_before = site

(***************************************************************************)
(* Spec: the all task, invoked up to MaxRuns times.                        *)
(***************************************************************************)
Init ==
    /\ task = "all"
    /\ pc = "bin_rustc"
    /\ release \in BOOLEAN
    /\ program_help \in {UsualHelp, BareHelp}
    /\ readme \in {UsualReadme, OpenReadme}
    /\ docsignore \in {NoIgnoreFile, UsualIgnoreFile}
    /\ site = UsualSite
    /\ listing \in ListingOrders
    /\ Fresh

Next ==
    \/ EnsureRustc
    \/ CargoBuild
    \/ RunBinary
    \/ BeautifyHelp
    \/ Splice
    \/ DocsApi
    \/ MkdocsBuild
    \/ ScrubHtml
    \/ ReadIgnore
    \/ PurgeNext
    \/ PurgeDone
    \/ AllFinish
    \/ InvokeAgain

Spec == Init /\ [][Next]_vars

(***************************************************************************)
(* SpecHelp: the binary has been built; bin runs it and beautifies any of  *)
(* the help texts.                                                         *)
(***************************************************************************)
InitHelp ==
    /\ task = "bin"
    /\ pc = "bin_run"
    /\ release = FALSE
    /\ program_help \in HelpTexts
    /\ readme = UsualReadme
    /\ docsignore = NoIgnoreFile
    /\ site = UsualSite
    /\ listing \in {CHOOSE o \in ListingOrders : TRUE}
    /\ Fresh

NextHelp ==
    \/ RunBinary
    \/ BeautifyHelp

SpecHelp == InitHelp /\ [][NextHelp]_vars

(***************************************************************************)
(* SpecSplice: the bin task, invoked up to MaxRuns times on any of the     *)
(* READMEs; the first invocation stands before the with block.             *)
(***************************************************************************)
InitSplice ==
    /\ task = "bin"
    /\ pc = "bin_splice"
    /\ release = FALSE
    /\ program_help \in {UsualHelp, EmptyHelp}
    /\ readme \in ReadmeTexts
    /\ docsignore = NoIgnoreFile
    /\ site = UsualSite
    /\ listing \in {CHOOSE o \in ListingOrders : TRUE}
    /\ run = 1
    /\ stages = <<>>
    /\ help_lines = Beautify(program_help).lines
    /\ help = Beautify(program_help).help
    /\ begin_idx = None
    /\ end_idx = None
    /\ bin_result = None
    /\ docs_result = None
    /\ pastes = 0
    /\ ignored = <<>>
    /\ readme_before = readme
    /\ site_before = site

NextSplice ==
    \/ EnsureRustc
    \/ CargoBuild
    \/ RunBinary
    \/ BeautifyHelp
    \/ Splice
    \/ InvokeAgain

SpecSplice == InitSplice /\ [][NextSplice]_vars

(***************************************************************************)
(* SpecPurge: a release build of the docs; mkdocs has left any of the      *)
(* trees and the HTML has been scrubbed.                                   *)
(***************************************************************************)
InitPurge ==
    /\ task = "docs"
    /\ pc = "docs_ignore"
    /\ release = TRUE
    /\ program_help = UsualHelp
    /\ readme = UsualReadme
    /\ docsignore \in IgnoreFiles
    /\ site \in SiteTrees
    /\ listing \in ListingOrders
    /\ Fresh

NextPurge ==
    \/ ReadIgnore
    \/ PurgeNext
    \/ PurgeDone

SpecPurge == InitPurge /\ [][NextPurge]_vars

(***************************************************************************)
(* What the claims speak of.                                               *)
(***************************************************************************)
\* the step the invocation executed last, and whether it succeeded
LastStage == IF stages = <<>> THEN "none" ELSE stages[Len(stages)].name
LastOk == stages # <<>> /\ stages[Len(stages)].ok

\* a header line: `#` in the first column
IsHeaderLine(line) == line # <<>> /\ line[1] = "#"

\* a header line in the wording of the claims: the first non-space character is `#`
IsLooseHeaderLine(line) == IsHeaderLine(LStrip(line))

\* the least of a set of indices, None of the empty set
FirstOf(indices) ==
    IF indices = {} THEN None
    ELSE CHOOSE i \in indices : \A j \in indices : i <= j

\* the indices (0-based) of the header lines of a document, a header line
\* being taken in the wording of the claims (loose) or with `#` in the first
\* column
HeaderIndices(lines, loose) ==
    {i \in 0..(Len(lines) - 1) :
        IF loose THEN IsLooseHeaderLine(lines[i + 1]) ELSE IsHeaderLine(lines[i + 1])}

\* the first header line with the usage title
BeginMarker(lines, loose) ==
    FirstOf({i \in HeaderIndices(lines, loose) : Contains(lines[i + 1], USAGE_TITLE)})

\* the next header line after it
EndMarker(lines, loose) ==
    LET b == BeginMarker(lines, loose)
    IN  IF b = None THEN None
        ELSE FirstOf({i \in HeaderIndices(lines, loose) : i > b})

\* lines [0..begin], a blank line, the block, a blank line, lines [end..],
\* each followed by a newline
Spliced(lines, b, e, block) ==
    Join(<<NL>>, SubSeq(lines, 1, b + 1) \o << <<>>, block, <<>> >>
                     \o SubSeq(lines, e + 1, Len(lines))) \o <<NL>>

\* of a README that bin has just tried to paste the help into (tried): its
\* lines as bin opened it, raw and right-stripped, and its markers, with a
\* header line being a line with `#` in the first column and, in the wording
\* of the claims, a line whose first non-space character is `#`
ReadmeView ==
    IF LastStage = "splice"
    THEN LET raw == SplitLines(readme_before)
             stripped == [i \in 1..Len(raw) |-> RStrip(raw[i])]
         IN  [tried |-> TRUE,
              raw |-> raw,
              stripped |-> stripped,
              begin |-> BeginMarker(stripped, FALSE),
              end |-> EndMarker(stripped, FALSE),
              loose_begin |-> BeginMarker(stripped, TRUE),
              loose_end |-> EndMarker(stripped, TRUE)]
    ELSE [tried |-> FALSE, raw |-> <<>>, stripped |-> <<>>, begin |-> None,
          end |-> None, loose_begin |-> None, loose_end |-> None]

(***************************************************************************)
(* C1: when the begin or the end marker is not found, bin returns 2 and    *)
(* README.md holds what it held before.                                    *)
(***************************************************************************)
C1_MissingMarkersLeaveReadme ==
    LET v == ReadmeView
    IN  (v.tried /\ (v.begin = None \/ v.end = None))
            => (bin_result = 2 /\ readme = readme_before)

\* a README with a usage header but no closing header has been tried
C1_Witness ==
    LET v == ReadmeView
    IN  /\ v.tried
        /\ v.begin # None
        /\ v.end = None
        /\ bin_result = 2
        /\ readme = readme_before

(***************************************************************************)
(* C3: pasting the help into a README that a previous paste of the same    *)
(* help produced leaves the README byte for byte as it was read.           *)
(***************************************************************************)
C3_SpliceIdempotent ==
    (LastStage = "splice" /\ LastOk /\ pastes >= 2) => readme = readme_before

\* the help has been pasted a second time
C3_Witness ==
    /\ LastStage = "splice"
    /\ LastOk
    /\ pastes >= 2
    /\ run >= 2
    /\ help # <<>>

(***************************************************************************)
(* C4, as claimed: a successful paste writes the lines before and after    *)
(* the replaced region exactly as they stood in the file.                  *)
(***************************************************************************)
C4_OutsideVerbatim ==
    LET v == ReadmeView
    IN  (v.tried /\ LastOk) => readme = Spliced(v.raw, v.begin, v.end, help)

(***************************************************************************)
(* C4, amended: a successful paste writes the lines before and after the   *)
(* replaced region in their order, each with its trailing whitespace       *)
(* stripped: lines [0..begin], a blank line, the help, a blank line,       *)
(* lines [end..].                                                          *)
(***************************************************************************)
C4_OutsideRightStripped ==
    LET v == ReadmeView
    IN  (v.tried /\ LastOk) => readme = Spliced(v.stripped, v.begin, v.end, help)

\* a paste into a README with a line of trailing whitespace outside the region
C4_Witness ==
    LET v == ReadmeView
    IN  /\ v.tried
        /\ LastOk
        /\ \E i \in 1..Len(v.raw) :
            /\ i <= v.begin + 1 \/ i > v.end
            /\ v.raw[i] # v.stripped[i]

(***************************************************************************)
(* C10, as claimed: with a header line being any line whose first          *)
(* non-space character is `#`, begin is the first header line with the     *)
(* usage title and end the next header line after it.                      *)
(***************************************************************************)
C10_LooseHeaderMarkers ==
    LET v == ReadmeView
    IN  v.tried => (begin_idx = v.loose_begin /\ end_idx = v.loose_end)

(***************************************************************************)
(* C10, amended: with a header line being any line whose first character   *)
(* is `#`, begin is the first header line that contains `# Usage` and end  *)
(* the next header line after it; when both are found begin < end and no   *)
(* header line lies strictly between them.                                 *)
(***************************************************************************)
C10_FirstColumnMarkers ==
    LET v == ReadmeView
    IN  v.tried =>
            /\ begin_idx = v.begin
            /\ end_idx = v.end
            /\ (begin_idx # None /\ end_idx # None) =>
                /\ begin_idx < end_idx
                /\ \A i \in (begin_idx + 1)..(end_idx - 1) :
                    ~ IsHeaderLine(v.stripped[i + 1])

\* a header before the usage header has been skipped, and of two usage
\* headers the first has been taken
C10_Witness ==
    LET v == ReadmeView
    IN  /\ v.tried
        /\ begin_idx = 1
        /\ end_idx = 2
        /\ IsHeaderLine(v.stripped[1])
        /\ Contains(v.stripped[3], USAGE_TITLE)

(***************************************************************************)
(* The help text as the claims see it: the lines of the printed text, the  *)
(* USAGE line, the synopsis line after it and the further lines.           *)
(***************************************************************************)
\* a maximal run `--` + word characters, hyphens or underscores, from i to j
IsFlagTokenAt(line, i, j) ==
    /\ HasAt(line, DASHDASH, i)
    /\ j >= i + 2
    /\ \A k \in (i + 2)..j : IsFlagChar(line[k])
    /\ j = Len(line) \/ ~ IsFlagChar(line[j + 1])
    /\ i = 1 \/ ~ IsFlagChar(line[i - 1])

\* the flag tokens a line mentions
FlagTokens(line) ==
    {SubSeq(line, ij[1], ij[2]) :
        ij \in {x \in (1..Len(line)) \X (1..Len(line)) :
                    IsFlagTokenAt(line, x[1], x[2])}}

InSeq(x, seq) == \E i \in 1..Len(seq) : seq[i] = x

\* of a beautified help text with a preamble, a USAGE line (the first line
\* that starts with USAGE) and a synopsis line that is not blank (ok):
\* the printed lines, the synopsis line, the further lines, the FlagSet, the
\* synopsis as it is pasted and the lines that follow it in help_lines
HelpView ==
    IF LastStage = "beautify" /\ LastOk
    THEN LET lines == SplitLines(Strip(program_help))
             u == FirstOf({i \in 0..(Len(lines) - 1) :
                              StartsWith(lines[i + 1], USAGE)})
             ok == /\ u # None
                   /\ u + 2 <= Len(lines)
                   /\ Strip(lines[u + 2]) # <<>>
             pasted == IF ok THEN UsageLines(lines[u + 2]) ELSE <<>>
         IN  [ok |-> ok,
              lines |-> lines,
              usage_idx |-> u,
              synopsis |-> IF ok THEN lines[u + 2] ELSE <<>>,
              further |-> IF ok THEN SubSeq(lines, u + 3, Len(lines)) ELSE <<>>,
              flag_set |-> IF ok THEN FlagTokens(lines[u + 2]) ELSE {},
              pasted |-> pasted,
              after |-> SubSeq(help_lines, Len(pasted) + 1, Len(help_lines))]
    ELSE [ok |-> FALSE, lines |-> <<>>, usage_idx |-> None, synopsis |-> <<>>,
          further |-> <<>>, flag_set |-> {}, pasted |-> <<>>, after |-> <<>>]

C6_KeptIffNoDashesOrFlagOfSet ==
    LET v == HelpView
        Kept(line) ==
            \/ ~ Contains(line, DASHDASH)
            \/ \E f \in v.flag_set : Contains(line, f)
    IN  v.ok => v.after = SelectSeq(v.further, Kept)

\* with the flags --a and --b in the synopsis, the line of --c has been
\* removed and the line of --a retained
C6_Witness ==
    LET v == HelpView
    IN  /\ v.ok
        /\ v.flag_set = {<<"-","-","a">>, <<"-","-","b">>}
        /\ InSeq(LineA, v.further)
        /\ InSeq(LineC, v.further)
        /\ InSeq(LineA, v.after)
        /\ ~ InSeq(LineC, v.after)

(***************************************************************************)
(* C7, as claimed: no line after the synopsis mentions a flag token that   *)
(* is not in the FlagSet.                                                  *)
(***************************************************************************)
C7_NoForeignFlagLeft ==
    LET v == HelpView
    IN  v.ok => \A i \in 1..Len(v.after) : FlagTokens(v.after[i]) \subseteq v.flag_set

(***************************************************************************)
(* C7, amended: every line after the synopsis that contains `--` contains  *)
(* a flag token of the FlagSet as a substring, and every help line that    *)
(* contains `--` but no flag token of the FlagSet is dropped.              *)
(***************************************************************************)
C7_DashedLinesHoldFlagOfSet ==
    LET v == HelpView
        Foreign(line) ==
            /\ Contains(line, DASHDASH)
            /\ \A f \in v.flag_set : ~ Contains(line, f)
    IN  v.ok =>
            /\ \A i \in 1..Len(v.after) : ~ Foreign(v.after[i])
            /\ \A j \in 1..Len(v.further) :
                Foreign(v.further[j]) => ~ InSeq(v.further[j], v.after)

\* a line that mentions --a of the FlagSet and --c, which is not in it, has
\* been kept, and the line that mentions only --c dropped
C7_Witness ==
    LET v == HelpView
    IN  /\ v.ok
        /\ InSeq(LineAC, v.after)
        /\ InSeq(LineC, v.further)
        /\ ~ InSeq(LineC, v.after)

(***************************************************************************)
(* C2: once a stage of the pipeline has failed, no later stage is          *)
(* executed.                                                               *)
(***************************************************************************)
C2_FailureHaltsPipeline ==
    \A i \in 1..(Len(stages) - 1) : stages[i].ok

(***************************************************************************)
(* The purge as the claims see it: the patterns retained from .docsignore  *)
(* and the entries of the output directory each of them matches.           *)
(***************************************************************************)
\* the lines that are not blank and whose first non-space character is not `#`
RetainedPatterns ==
    LET lines == SplitLines(docsignore.text)
    IN  {RStrip(lines[i]) : i \in {k \in 1..Len(lines) :
            /\ Strip(lines[k]) # <<>>
            /\ LStrip(lines[k])[1] # "#"}}

RECURSIVE MatchesParts(_, _)
\* the components of a pattern against the names of a path; `**` stands for
\* any number of directories
MatchesParts(parts, names) ==
    IF parts = <<>> THEN names = <<>>
    ELSE IF parts[1] = STARSTAR
         THEN \/ MatchesParts(Tail(parts), names)
              \/ names # <<>> /\ MatchesParts(parts, Tail(names))
    ELSE /\ names # <<>>
         /\ Fnmatch(parts[1], names[1])
         /\ MatchesParts(Tail(parts), Tail(names))

EntriesBefore == (site_before.files \cup site_before.dirs) \ {<<>>}

\* the entries of the output directory, as the purge found it, that a pattern matches
MatchedBy(pattern) ==
    LET parts == PatternParts(pattern)
    IN  {e \in EntriesBefore :
            /\ MatchesParts(parts, e)
            /\ parts[Len(parts)] = STARSTAR => e \in site_before.dirs}

Matched == UNION {MatchedBy(p) : p \in RetainedPatterns}

\* matched, or inside a matched directory
Covered(e) == \E m \in Matched : IsPathPrefix(m, e)

PurgeCompleted == task = "docs" /\ pc = "done" /\ LastStage \in {"ignore", "purge"}

(***************************************************************************)
(* C8: when the purge has completed with a pattern file, every entry that  *)
(* matched a retained pattern, or lies in a matched directory, is gone and *)
(* every other entry is still there.                                       *)
(***************************************************************************)
C8_PurgeRemovesExactlyMatches ==
    (PurgeCompleted /\ docsignore.exists) =>
        \A e \in EntriesBefore :
            /\ Covered(e) => e \notin site.files \cup site.dirs
            /\ ~ Covered(e) =>
                /\ e \in site_before.files => e \in site.files
                /\ e \in site_before.dirs => e \in site.dirs

\* `*.tmp` and `build/` on a.tmp, keep.txt and build/x.html have left
\* keep.txt alone
C8_Witness ==
    /\ PurgeCompleted
    /\ docsignore.exists
    /\ RetainedPatterns = {RStrip(PatTmp), PatBuild}
    /\ site_before = UsualSite
    /\ site = [files |-> {<<KEEP_TXT>>}, dirs |-> {<<>>}]

\* a pattern matches a directory and an entry inside it, or two patterns
\* match the same entry
HasRepeatedMatch ==
    \/ \E p \in RetainedPatterns : \E d, e \in MatchedBy(p) :
        d # e /\ IsPathPrefix(d, e)
    \/ \E p, q \in RetainedPatterns : p # q /\ MatchedBy(p) \cap MatchedBy(q) # {}

(***************************************************************************)
(* C9: a path that is matched more than once and is already removed is     *)
(* tolerated: the purge does not raise.                                    *)
(***************************************************************************)
C9_RepeatedMatchTolerated ==
    HasRepeatedMatch => pc # "raised"

====
